---- MODULE Spec2Model ----
(***************************************************************************)
(* App.js (honzahommer/app-js): the App namespace constructor/dispatcher,  *)
(* the path accessor _getOrSet behind get/set, the loader queue replay,   *)
(* the document-ready callback mechanism and error/protect, as a state     *)
(* machine.                                                                *)
(*                                                                         *)
(* A path string is the sequence of its characters, so that the regular    *)
(* expressions, split and toLowerCase of the source are computed and not   *)
(* assumed; the other strings are opaque.  JavaScript values are records   *)
(* tagged by their typeof.  self.time and the console output are left out. *)
(***************************************************************************)
EXTENDS Integers, Sequences, FiniteSets, TLC

VARIABLES
    readyState,   \* document.readyState
    hasAEL,       \* whether document.addEventListener exists on this host
    dclFired,     \* whether the host has dispatched DOMContentLoaded
    loader,       \* window[APP_LOADER_VAR]: the placeholder object, if any
    proto,        \* App.prototype: its debug and domready flags, its data object
    insts,        \* the objects created by `new App(...)`, in creation order
    regs,         \* one record per call of ready(): handler, arguments, count
    listeners,    \* listeners added to the document by ready()
    timers,       \* callbacks scheduled with setTimeout, in firing order
    mods,         \* the page's own objects, which it may hand to protect()
    last          \* the most recent API call and its outcome

vars == <<readyState, hasAEL, dclFired, loader, proto, insts, regs, listeners, timers,
          mods, last>>

-----------------------------------------------------------------------------
(* Bounds of the model *)

\* how many times `new App(...)` is evaluated in one behaviour
MaxInst == 2
\* how many calls the placeholder's queue holds at most
MaxQueue == 3
\* how many ready() registrations one behaviour makes at most
MaxRegs == 3
\* how many of its objects the page hands to protect()
MaxMods == 1
\* how many times protect() is called on one object
MaxWrap == 2

-----------------------------------------------------------------------------
(* JavaScript values *)

EmptyFn == [k \in {} |-> k]

\* t is the value's typeof, s the characters of a primitive, f the
\* properties of an object (property name to value)
Undefined == [t |-> "undefined", s |-> <<>>, f |-> EmptyFn]
Str(s) == [t |-> "string", s |-> s, f |-> EmptyFn]
Bool(b) == [t |-> "boolean", s |-> IF b THEN <<"true">> ELSE <<"false">>, f |-> EmptyFn]
Fn(name) == [t |-> "function", s |-> <<name>>, f |-> EmptyFn]
Obj(f) == [t |-> "object", s |-> <<>>, f |-> f]
EmptyObj == Obj(EmptyFn)
\* an array of property names, its elements in s
Arr(s) == [t |-> "object", s |-> s, f |-> EmptyFn]

\* the values callers store, the defaults they pass to get, the paths they
\* pass to get and set, the paths they pass to App and the extra arguments
\* they pass to ready
Values == {Str(<<"v1">>), Str(<<"v2">>)}
Defaults == {Undefined, Str(<<"dflt">>)}
PathInputs == {<<"a">>, <<"a", ".", "b">>, <<"a", "[", "b", "]">>}
CallPaths == PathInputs \cup {<<"A">>}
ArgInputs == {<<>>, <<Str(<<"x">>), Str(<<"y">>)>>}

-----------------------------------------------------------------------------
(* Strings *)

\* \w of the regular expression in _getOrSet, over the alphabet of the inputs
WordChars == {"a", "b", "A", "B", "d", "t", "0"}

toLowerCase(s) ==
    [i \in 1..Len(s) |-> CASE s[i] = "A" -> "a" [] s[i] = "B" -> "b" [] OTHER -> s[i]]

\* the end of the maximal run of word characters of s that starts at i
RECURSIVE WordRunEnd(_, _)
WordRunEnd(s, i) ==
    IF i <= Len(s) /\ s[i] \in WordChars THEN WordRunEnd(s, i + 1) ELSE i - 1

\* path.replace(/\[(\w+)]/g, '.$1')
RECURSIVE ReplaceBrackets(_, _)
ReplaceBrackets(s, i) ==
    IF i > Len(s) THEN <<>>
    ELSE LET e == WordRunEnd(s, i + 1) IN
         IF s[i] = "[" /\ e >= i + 1 /\ e + 1 <= Len(s) /\ s[e + 1] = "]"
         THEN <<".">> \o SubSeq(s, i + 1, e) \o ReplaceBrackets(s, e + 2)
         ELSE <<s[i]>> \o ReplaceBrackets(s, i + 1)

\* path.replace(/^\./, '')
StripLeadingDot(s) == IF Len(s) > 0 /\ s[1] = "." THEN Tail(s) ELSE s

\* the characters of a segment as one property name
RECURSIVE Join(_)
Join(s) == IF s = <<>> THEN "" ELSE s[1] \o Join(Tail(s))

\* path.split('.'): the property names between the dots
RECURSIVE Split(_, _)
Split(s, cur) ==
    IF s = <<>> THEN <<Join(cur)>>
    ELSE IF s[1] = "." THEN <<Join(cur)>> \o Split(Tail(s), <<>>)
    ELSE Split(Tail(s), Append(cur, s[1]))

\* the conversion without the replace of line 61
PathToArrayNoStrip(path) == Split(ReplaceBrackets(path, 1), <<>>)

\* lines 56-64 of _getOrSet: a path string to its segments
PathToArray(path) == Split(StripLeadingDot(ReplaceBrackets(path, 1)), <<>>)

-----------------------------------------------------------------------------
(* _getOrSet *)

\* lines 66-85: the loop of _getOrSet from segment i on, on `object`.
\* The result holds the object as the loop leaves it (obj), the value
\* returned (ret) and whether `key in object` raised a TypeError because
\* `object` is not an object (threw).
RECURSIVE GetOrSetLoop(_, _, _, _, _)
GetOrSetLoop(object, path, i, value, create) ==
    IF i > Len(path) THEN [obj |-> object, ret |-> object, threw |-> FALSE]
    ELSE IF object.t # "object" THEN [obj |-> object, ret |-> Undefined, threw |-> TRUE]
    ELSE
      LET key == path[i]
          exists == key \in DOMAIN object.f
          made == IF ~exists /\ create
                  THEN Obj((key :> (IF i = Len(path) THEN value ELSE EmptyObj)) @@ object.f)
                  ELSE object
      IN  IF exists \/ create
          THEN LET r == GetOrSetLoop(made.f[key], path, i + 1, value, create)
               IN  [obj |-> Obj((key :> r.obj) @@ made.f), ret |-> r.ret, threw |-> r.threw]
          ELSE [obj |-> object, ret |-> value, threw |-> FALSE]

\* the loop assigning `value` at the last segment whether it exists or not
RECURSIVE GetOrSetLoopOverwrite(_, _, _, _, _)
GetOrSetLoopOverwrite(object, path, i, value, create) ==
    IF i > Len(path) THEN [obj |-> object, ret |-> object, threw |-> FALSE]
    ELSE IF object.t # "object" THEN [obj |-> object, ret |-> Undefined, threw |-> TRUE]
    ELSE
      LET key == path[i]
          exists == key \in DOMAIN object.f
          made == IF create /\ (~exists \/ i = Len(path))
                  THEN Obj((key :> (IF i = Len(path) THEN value ELSE EmptyObj)) @@ object.f)
                  ELSE object
      IN  IF exists \/ create
          THEN LET r == GetOrSetLoopOverwrite(made.f[key], path, i + 1, value, create)
               IN  [obj |-> Obj((key :> r.obj) @@ made.f), ret |-> r.ret, threw |-> r.threw]
          ELSE [obj |-> object, ret |-> value, threw |-> FALSE]

\* _getOrSet overwriting the value at a path that resolves
GetOrSetOverwrite(object, path, value, create) ==
    GetOrSetLoopOverwrite(object, PathToArray(path), 1, value, create)

\* _getOrSet(object, path, value, create) with a string path
GetOrSet(object, path, value, create) ==
    GetOrSetLoop(object, PathToArray(path), 1, value, create)

\* _getOrSet(object, path, value, create) with an array of property names:
\* line 56 leaves it as it is
GetOrSetSegs(object, path, value, create) ==
    GetOrSetLoop(object, path, 1, value, create)

-----------------------------------------------------------------------------
(* error and protect *)

\* what a page's code throws: an Error object, or a primitive
\* (`throw 'boom'`)
ErrorObj == Obj(("name" :> Str(<<"Error">>)) @@ ("message" :> Str(<<"boom">>)))
Exceptions == {ErrorObj, Str(<<"boom">>)}

\* the TypeError of an assignment to a property of a primitive in strict
\* code (line 41)
TypeErrorObj == Obj(("name" :> Str(<<"TypeError">>)) @@ ("message" :> Str(<<"primitive">>)))

\* error throwing whatever the flag is
AppErrorAlways(debug, exception) == [ret |-> exception, threw |-> TRUE]

\* lines 167-171: error(exception) on an object whose debug reads `debug`.
\* ret is the value the call completes with: the value returned, or the
\* value thrown when threw is TRUE.
AppError(debug, exception) ==
    IF debug = TRUE THEN [ret |-> exception, threw |-> TRUE]
    ELSE [ret |-> Undefined, threw |-> FALSE]

\* the methods of the page's objects: one returns a value, one throws an
\* Error, one throws a string
Body(fn) ==
    CASE fn.s = <<"returns">> -> [ret |-> Str(<<"v1">>), threw |-> FALSE]
      [] fn.s = <<"throwsError">> -> [ret |-> ErrorObj, threw |-> TRUE]
      [] fn.s = <<"throwsString">> -> [ret |-> Str(<<"boom">>), threw |-> TRUE]

\* an object of the page: three methods and a property that is no function
ModObject ==
    Obj(("run" :> Fn("returns")) @@ ("fail" :> Fn("throwsError"))
        @@ ("raise" :> Fn("throwsString")) @@ ("cfg" :> Str(<<"v1">>)))
ModNames == {"mod"}

\* lines 489-503: the function protect puts in place of fn; it closes over
\* name, fnName and fn (self.debug is App.prototype.debug for every self)
Wrapper(name, fnName, fn) ==
    [t |-> "function", s |-> <<"wrapper", name, fnName>>, f |-> ("fn" :> fn)]
IsWrapper(fn) == fn.t = "function" /\ Len(fn.s) = 3 /\ fn.s[1] = "wrapper"

\* lines 476-509: protect(object, name), the object as the loop leaves it
AppProtect(object, name) ==
    Obj([property \in DOMAIN object.f |->
            IF object.f[property].t = "function"
            THEN Wrapper(name, property, object.f[property])
            ELSE object.f[property]])

\* a call of fn: the body of a method of the page, or lines 490-502 for a
\* wrapper
RECURSIVE Invoke(_, _)
Invoke(fn, debug) ==
    IF ~IsWrapper(fn) THEN Body(fn)
    ELSE LET r == Invoke(fn.f["fn"], debug)
         IN  IF ~r.threw THEN r
             ELSE LET ex == r.ret
                      name == fn.s[2]
                      fnName == fn.s[3]
                      errorPrefix == <<name, ".", fnName, "() - ">>
                      message == IF "message" \in DOMAIN ex.f THEN ex.f["message"].s
                                 ELSE <<"undefined">>
                  IN  \* line 497: ex.methodName = fnName on a primitive
                      IF ex.t # "object" THEN [ret |-> TypeErrorObj, threw |-> TRUE]
                      ELSE AppError(debug,
                               Obj(("methodName" :> Str(<<fnName>>))
                                   @@ ("name" :> Str(errorPrefix \o <<name>>))
                                   @@ ("message" :> Str(errorPrefix \o message))
                                   @@ ex.f))

\* the method under the wrappers of fn
RECURSIVE Original(_)
Original(fn) == IF IsWrapper(fn) THEN Original(fn.f["fn"]) ELSE fn

\* how many wrappers are around fn
RECURSIVE Depth(_)
Depth(fn) == IF IsWrapper(fn) THEN 1 + Depth(fn.f["fn"]) ELSE 0

-----------------------------------------------------------------------------
(* The calls in progress work on a record m of the mutable state they     *)
(* share: m.data (App.prototype.data), m.regs, m.listeners, m.timers.     *)

\* readyFn applying the handler at once instead of through setTimeout
ReadyFnSync(m, id) == [m EXCEPT !.regs[id].n = @ + 1]

\* lines 182-188: readyFn of registration id schedules the handler
ReadyFn(m, id) == [m EXCEPT !.timers = Append(@, id)]

\* ready without the test of line 190: it waits for DOMContentLoaded even
\* when the document is no longer loading
ReadyLate(m, self, internal, arguments) ==
    LET id == Len(m.regs) + 1
        reg == [internal |-> internal, self |-> self, args |-> Tail(arguments),
                loading |-> readyState = "loading", n |-> 0]
        m1 == [m EXCEPT !.regs = Append(@, reg)]
    IN  IF hasAEL
        THEN [m1 EXCEPT !.listeners = Append(@, [event |-> "DOMContentLoaded", id |-> id])]
        ELSE [m1 EXCEPT !.listeners = Append(@, [event |-> "onreadystatechange", id |-> id])]

\* lines 179-204: ready.apply(self, arguments); arguments[1] is the handler.
\* `internal` tells the callback of line 112 from a caller's callback.
Ready(m, self, internal, arguments) ==
    LET id == Len(m.regs) + 1
        reg == [internal |-> internal, self |-> self, args |-> Tail(arguments),
                loading |-> readyState = "loading", n |-> 0]
        m1 == [m EXCEPT !.regs = Append(@, reg)]
    IN  IF readyState # "loading" THEN ReadyFn(m1, id)
        ELSE IF hasAEL
        THEN [m1 EXCEPT !.listeners = Append(@, [event |-> "DOMContentLoaded", id |-> id])]
        ELSE [m1 EXCEPT !.listeners = Append(@, [event |-> "onreadystatechange", id |-> id])]

\* the switch handing ready() the handler without the arguments after it
DispatchNoArgs(m, self, domready, arguments) ==
    LET path == IF Len(arguments) >= 1 THEN arguments[1] ELSE Undefined
    IN  IF path.t = "function"
        THEN [m |-> Ready(m, self, FALSE, <<path>>), ret |-> Undefined, threw |-> FALSE]
        ELSE [m |-> m, ret |-> Bool(domready), threw |-> FALSE]

\* lines 125-134: the switch of App on typeof path, for a call with the
\* given arguments on an instance whose domready reads `domready`
Dispatch(m, self, domready, arguments) ==
    LET path == IF Len(arguments) >= 1 THEN arguments[1] ELSE Undefined
        value == IF Len(arguments) >= 2 THEN arguments[2] ELSE Undefined
    IN  CASE path.t = "string" ->
               LET isSetter == value.t # "undefined"
                   r == GetOrSet(m.data, toLowerCase(path.s),
                                 IF isSetter THEN value ELSE Undefined, isSetter)
               IN  [m |-> [m EXCEPT !.data = r.obj], ret |-> r.ret, threw |-> r.threw]
          [] path.t = "function" ->
               [m |-> Ready(m, self, FALSE, arguments), ret |-> Undefined, threw |-> FALSE]
          [] OTHER ->
               [m |-> m, ret |-> Bool(domready), threw |-> FALSE]

\* what `this` is to _getOrSet and to property reads: the instance's own
\* properties over those it inherits from App.prototype (the methods and
\* Object.prototype's members are outside the alphabet of PathInputs)
InheritedKeys == {"appready", "domready", "data"}
This(own, m) ==
    Obj(own @@ ("appready" :> Bool(FALSE)) @@ ("domready" :> Bool(proto.domready))
            @@ ("data" :> m.data))

\* the own properties of the instance after _getOrSet worked on This(own, m)
OwnOf(object, own) ==
    [k \in DOMAIN object.f \ (InheritedKeys \ DOMAIN own) |-> object.f[k]]

\* lines 96-135: App called with `this` the instance number self, whose own
\* properties are `own`.  The result: the shared state m, the instance's own
\* properties, the value returned, whether an exception left the call,
\* the argument lists that reached the switch of line 125 in order (log),
\* and how often lines 103-122 were entered (inits) and the queue was
\* iterated (replays).
RECURSIVE App(_, _, _, _)
RECURSIVE Each(_, _, _, _, _, _)

\* lines 255-263 with the iteratee of lines 120-122: the queue from item i on
Each(m, self, own, collection, i, log) ==
    IF i > Len(collection) THEN [m |-> m, own |-> own, threw |-> FALSE, log |-> log]
    ELSE LET a == App(m, self, own, collection[i])
         IN  IF a.threw
             THEN [m |-> a.m, own |-> a.own, threw |-> TRUE, log |-> log \o a.log]
             ELSE Each(a.m, self, a.own, collection, i + 1, log \o a.log)

\* lines 125-134 after the initialization block
AppSwitch(m, self, own, arguments, log, inits, replays) ==
    LET d == Dispatch(m, self, This(own, m).f["domready"].s = <<"true">>, arguments)
    IN  [m |-> d.m, own |-> own, ret |-> d.ret, threw |-> d.threw,
         log |-> Append(log, arguments), inits |-> inits, replays |-> replays]

App(m, self, own, arguments) ==
    IF This(own, m).f["appready"] = Bool(FALSE)
    THEN LET own1 == ("appready" :> Bool(TRUE)) @@ own
         IN  IF ~loader.present
             \* line 109: loader.time on undefined raises a TypeError
             THEN [m |-> m, own |-> own1, ret |-> Undefined, threw |-> TRUE,
                   log |-> <<>>, inits |-> 1, replays |-> 0]
             ELSE LET m1 == Ready(m, self, TRUE, <<Fn("domready")>>)
                  IN  IF ~loader.isArray
                      THEN AppSwitch(m1, self, own1, arguments, <<>>, 1, 0)
                      ELSE LET e == Each(m1, self, own1, loader.queue, 1, <<>>)
                           IN  IF e.threw
                               THEN [m |-> e.m, own |-> e.own, ret |-> Undefined,
                                     threw |-> TRUE, log |-> e.log, inits |-> 1,
                                     replays |-> 1]
                               ELSE AppSwitch(e.m, self, e.own, arguments, e.log, 1, 1)
    ELSE AppSwitch(m, self, own, arguments, <<>>, 0, 0)

-----------------------------------------------------------------------------
(* Inputs *)

RECURSIVE SeqsUpTo(_, _)
SeqsUpTo(S, n) ==
    IF n = 0 THEN {<<>>}
    ELSE LET shorter == SeqsUpTo(S, n - 1)
         IN  shorter \cup {Append(q, x) : q \in shorter, x \in S}

\* the calls a page makes on the placeholder before App.js is loaded
QueueItems ==
    { <<Str(<<"a">>), Str(<<"v1">>)>>, <<Str(<<"a", ".", "b">>)>>, <<Fn("h")>> }

\* window.app when App.js runs: undefined, an object without a queue, or the
\* placeholder with its queue
LoaderInputs ==
    {[present |-> FALSE, isArray |-> FALSE, queue |-> <<>>],
     [present |-> TRUE, isArray |-> FALSE, queue |-> <<>>]}
    \cup {[present |-> TRUE, isArray |-> TRUE, queue |-> q] : q \in SeqsUpTo(QueueItems, MaxQueue)}

\* the argument lists of `new App(...)` and of calls of App on an instance:
\* a path with or without a value, a handler with its arguments, nothing
StringCalls ==
    {<<Str(p)>> : p \in CallPaths}
    \cup {<<Str(p), v>> : p \in CallPaths, v \in Values \cup {Undefined}}
FunctionCalls == {<<Fn("h")>> \o a : a \in ArgInputs}
CallInputs == {<<>>} \cup StringCalls \cup FunctionCalls

\* path forms: one location written with a bracketed index, with dotted
\* segments and as the array of its property names
PathForms ==
    {[bracketed |-> <<"a", "[", "0", "]", ".", "b">>,
      dotted |-> <<"a", ".", "0", ".", "b">>, segments |-> <<"a", "0", "b">>],
     [bracketed |-> <<"[", "0", "]", ".", "a">>,
      dotted |-> <<"0", ".", "a">>, segments |-> <<"0", "a">>]}
FormPaths == {f.bracketed : f \in PathForms} \cup {f.dotted : f \in PathForms}

-----------------------------------------------------------------------------
(* State *)

M == [data |-> proto.data, regs |-> regs, listeners |-> listeners, timers |-> timers]

NoCall == [op |-> "none", self |-> 0, args |-> <<>>, ret |-> Undefined, threw |-> FALSE,
           log |-> <<>>, inits |-> 0, replays |-> 0, resolved |-> FALSE]

\* whether every segment of path resolves from `object` (no TypeError, no
\* absent segment)
Resolves(object, path) ==
    LET r == GetOrSet(object, path, Fn("absent"), FALSE)
    IN  ~r.threw /\ r.ret # Fn("absent")

Init ==
    /\ readyState \in {"loading", "interactive", "complete"}
    /\ hasAEL \in BOOLEAN
    /\ dclFired \in BOOLEAN
    /\ dclFired => hasAEL /\ readyState # "loading"
    /\ hasAEL /\ readyState = "complete" => dclFired
    /\ loader \in LoaderInputs
    \* lines 151-157: the prototype as the script leaves it
    /\ proto \in {[domready |-> readyState # "loading", debug |-> d, data |-> EmptyObj] :
                     d \in BOOLEAN}
    /\ insts = <<>>
    /\ regs = <<>>
    /\ listeners = <<>>
    /\ timers = <<>>
    /\ mods = <<>>
    /\ last = NoCall

SetShared(m) ==
    /\ proto' = [proto EXCEPT !.data = m.data]
    /\ regs' = m.regs
    /\ listeners' = m.listeners
    /\ timers' = m.timers

\* `new App(...arguments)`: a fresh object whose prototype is App.prototype;
\* the expression yields the object unless App returns an object or throws
New(arguments) ==
    /\ Len(insts) < MaxInst
    /\ LET self == Len(insts) + 1
           a == App(M, self, EmptyFn, arguments)
       IN  /\ Len(a.m.regs) <= MaxRegs
           /\ SetShared(a.m)
           /\ insts' = Append(insts, [own |-> a.own,
                                      held |-> ~a.threw /\ a.ret.t # "object"])
           /\ last' = [op |-> "new", self |-> self, args |-> arguments, ret |-> a.ret,
                       threw |-> a.threw, log |-> a.log, inits |-> a.inits,
                       replays |-> a.replays, resolved |-> FALSE]
    /\ UNCHANGED <<readyState, hasAEL, dclFired, loader, mods>>

\* app.constructor(...arguments): App as a method of an existing instance
Call(self, arguments) ==
    /\ insts[self].held
    /\ LET a == App(M, self, insts[self].own, arguments)
       IN  /\ Len(a.m.regs) <= MaxRegs
           /\ SetShared(a.m)
           /\ insts' = [insts EXCEPT ![self].own = a.own]
           /\ last' = [op |-> "call", self |-> self, args |-> arguments, ret |-> a.ret,
                       threw |-> a.threw, log |-> a.log, inits |-> a.inits,
                       replays |-> a.replays, resolved |-> FALSE]
    /\ UNCHANGED <<readyState, hasAEL, dclFired, loader, mods>>

\* lines 209-211: get called on `this`; no fourth argument, so that
\* `create === true` is false
AppGet(this, path, defaultValue) == GetOrSet(this, path, defaultValue, FALSE)

\* set without its fourth argument
AppSetNoCreate(this, path, value) == GetOrSet(this, path, value, FALSE)

\* lines 216-218: set called on `this`
AppSet(this, path, value) == GetOrSet(this, path, value, TRUE)

\* app.get(path, defaultValue)
Get(self, path, defaultValue) ==
    /\ insts[self].held
    /\ LET this == This(insts[self].own, M)
           r == AppGet(this, path, defaultValue)
       IN  /\ proto' = [proto EXCEPT !.data = r.obj.f["data"]]
           /\ insts' = [insts EXCEPT ![self].own = OwnOf(r.obj, insts[self].own)]
           /\ last' = [NoCall EXCEPT !.op = "get", !.self = self,
                         !.args = <<Str(path), defaultValue>>, !.ret = r.ret,
                         !.threw = r.threw, !.resolved = Resolves(this, path)]
    /\ UNCHANGED <<readyState, hasAEL, dclFired, loader, regs, listeners, timers, mods>>

\* app.set(path, value)
Set(self, path, value) ==
    /\ insts[self].held
    /\ LET this == This(insts[self].own, M)
           r == AppSet(this, path, value)
       IN  /\ proto' = [proto EXCEPT !.data = r.obj.f["data"]]
           /\ insts' = [insts EXCEPT ![self].own = OwnOf(r.obj, insts[self].own)]
           /\ last' = [NoCall EXCEPT !.op = "set", !.self = self,
                         !.args = <<Str(path), value>>, !.ret = r.ret,
                         !.threw = r.threw, !.resolved = Resolves(this, path)]
    /\ UNCHANGED <<readyState, hasAEL, dclFired, loader, regs, listeners, timers, mods>>

\* app.get(path, defaultValue) with an array of property names as path
GetSegs(self, path, defaultValue) ==
    /\ insts[self].held
    /\ LET this == This(insts[self].own, M)
           r == GetOrSetSegs(this, path, defaultValue, FALSE)
       IN  /\ proto' = [proto EXCEPT !.data = r.obj.f["data"]]
           /\ insts' = [insts EXCEPT ![self].own = OwnOf(r.obj, insts[self].own)]
           /\ last' = [NoCall EXCEPT !.op = "get", !.self = self,
                         !.args = <<Arr(path), defaultValue>>, !.ret = r.ret,
                         !.threw = r.threw,
                         !.resolved = GetOrSetSegs(this, path, Fn("absent"), FALSE).ret
                                        # Fn("absent")]
    /\ UNCHANGED <<readyState, hasAEL, dclFired, loader, regs, listeners, timers, mods>>

\* app.set(path, value) with an array of property names as path
SetSegs(self, path, value) ==
    /\ insts[self].held
    /\ LET this == This(insts[self].own, M)
           r == GetOrSetSegs(this, path, value, TRUE)
       IN  /\ proto' = [proto EXCEPT !.data = r.obj.f["data"]]
           /\ insts' = [insts EXCEPT ![self].own = OwnOf(r.obj, insts[self].own)]
           /\ last' = [NoCall EXCEPT !.op = "set", !.self = self,
                         !.args = <<Arr(path), value>>, !.ret = r.ret,
                         !.threw = r.threw,
                         !.resolved = GetOrSetSegs(this, path, Fn("absent"), FALSE).ret
                                        # Fn("absent")]
    /\ UNCHANGED <<readyState, hasAEL, dclFired, loader, regs, listeners, timers, mods>>

\* app.ready(handler, ...args)
CallReady(self, args) ==
    /\ insts[self].held
    /\ Len(regs) < MaxRegs
    /\ SetShared(Ready(M, self, FALSE, <<Fn("h")>> \o args))
    /\ last' = [NoCall EXCEPT !.op = "ready", !.self = self, !.args = <<Fn("h")>> \o args]
    /\ UNCHANGED <<readyState, hasAEL, dclFired, loader, insts, mods>>

\* app.error(exception)
CallError(self, exception) ==
    /\ insts[self].held
    /\ LET r == AppError(proto.debug, exception)
       IN  last' = [NoCall EXCEPT !.op = "error", !.self = self, !.args = <<exception>>,
                      !.ret = r.ret, !.threw = r.threw]
    /\ UNCHANGED <<readyState, hasAEL, dclFired, loader, proto, insts, regs, listeners,
                   timers, mods>>

\* app.protect(object, name) on the k-th object of the page: one it has
\* protected before, or the next one
Protect(self, k, name) ==
    /\ insts[self].held
    /\ k <= MaxMods /\ k <= Len(mods) + 1
    /\ LET object == IF k \in DOMAIN mods THEN mods[k] ELSE ModObject
       IN  /\ Depth(object.f["run"]) < MaxWrap
           /\ mods' = IF k \in DOMAIN mods
                      THEN [mods EXCEPT ![k] = AppProtect(object, name)]
                      ELSE Append(mods, AppProtect(object, name))
    /\ last' = [NoCall EXCEPT !.op = "protect", !.self = self]
    /\ UNCHANGED <<readyState, hasAEL, dclFired, loader, proto, insts, regs, listeners,
                   timers>>

\* the page calls a method of its k-th protected object; last.self is k
CallMethod(k, property) ==
    /\ k \in DOMAIN mods
    /\ mods[k].f[property].t = "function"
    /\ LET r == Invoke(mods[k].f[property], proto.debug)
       IN  last' = [NoCall EXCEPT !.op = "method", !.self = k,
                      !.args = <<Str(<<property>>)>>, !.ret = r.ret, !.threw = r.threw]
    /\ UNCHANGED <<readyState, hasAEL, dclFired, loader, proto, insts, regs, listeners,
                   timers, mods>>

-----------------------------------------------------------------------------
(* The host: the document's ready states, its events and its timers *)

\* the listeners of `event` run in the order they were added: lines 193-195
\* for DOMContentLoaded, lines 198-202 for onreadystatechange with the
\* document in state `state`
RECURSIVE FireEvent(_, _, _, _)
FireEvent(m, event, state, i) ==
    IF i > Len(m.listeners) THEN m
    ELSE LET l == m.listeners[i]
             m1 == IF l.event = event /\ (event = "DOMContentLoaded" \/ state # "loading")
                   THEN ReadyFn(m, l.id) ELSE m
         IN  FireEvent(m1, event, state, i + 1)

HostInteractive ==
    /\ readyState = "loading"
    /\ readyState' = "interactive"
    /\ SetShared(FireEvent(M, "onreadystatechange", "interactive", 1))
    /\ last' = NoCall
    /\ UNCHANGED <<hasAEL, dclFired, loader, insts, mods>>

HostDOMContentLoaded ==
    /\ hasAEL /\ readyState = "interactive" /\ ~dclFired
    /\ dclFired' = TRUE
    /\ SetShared(FireEvent(M, "DOMContentLoaded", readyState, 1))
    /\ last' = NoCall
    /\ UNCHANGED <<readyState, hasAEL, loader, insts, mods>>

HostComplete ==
    /\ readyState = "interactive" /\ (hasAEL => dclFired)
    /\ readyState' = "complete"
    /\ SetShared(FireEvent(M, "onreadystatechange", "complete", 1))
    /\ last' = NoCall
    /\ UNCHANGED <<hasAEL, dclFired, loader, insts, mods>>

\* the callback of line 112 setting the flag to false
DomReadyReset(own) == ("domready" :> Bool(FALSE)) @@ own

\* lines 112-117: the callback the constructor registers, on the own
\* properties of the instance it closes over
DomReady(own) == ("domready" :> Bool(TRUE)) @@ own

\* lines 185-187: the oldest timer fires and applies its handler to the
\* arguments ready() kept for it (thisArgs); `last` shows what it received
TimerFire ==
    /\ timers # <<>>
    /\ LET id == Head(timers)
           reg == regs[id]
       IN  /\ regs' = [regs EXCEPT ![id].n = @ + 1]
           /\ insts' = IF reg.internal
                       THEN [insts EXCEPT ![reg.self].own = DomReady(@)]
                       ELSE insts
           /\ last' = [NoCall EXCEPT !.op = "handler", !.self = reg.self,
                         !.args = reg.args]
    /\ timers' = Tail(timers)
    /\ UNCHANGED <<readyState, hasAEL, dclFired, loader, proto, listeners, mods>>

Next ==
    \/ \E a \in CallInputs : New(a)
    \/ \E i \in 1..Len(insts), a \in CallInputs : Call(i, a)
    \/ \E i \in 1..Len(insts), p \in PathInputs, d \in Defaults : Get(i, p, d)
    \/ \E i \in 1..Len(insts), p \in PathInputs, v \in Values : Set(i, p, v)
    \/ \E i \in 1..Len(insts), a \in ArgInputs : CallReady(i, a)
    \/ \E i \in 1..Len(insts), f \in PathForms, d \in Defaults : GetSegs(i, f.segments, d)
    \/ \E i \in 1..Len(insts), f \in PathForms, v \in Values : SetSegs(i, f.segments, v)
    \/ \E i \in 1..Len(insts), e \in Exceptions : CallError(i, e)
    \/ \E i \in 1..Len(insts), k \in 1..MaxMods, name \in ModNames : Protect(i, k, name)
    \/ \E k \in 1..Len(mods), p \in DOMAIN ModObject.f : CallMethod(k, p)
    \/ HostInteractive
    \/ HostDOMContentLoaded
    \/ HostComplete
    \/ TimerFire

\* every behaviour of the page
Spec == Init /\ [][Next]_vars

-----------------------------------------------------------------------------
(* The store (App.prototype.data and the properties set on the instances)  *)
(* and the ready mechanism (regs, listeners, timers) work on disjoint      *)
(* state: get, set and the string calls touch only the first, ready, the   *)
(* host's events and the timers only the second and the domready flag.     *)
(* Each part is explored under the calls that work on it, and the          *)
(* initialization under every placeholder and every form of construction.  *)
(* The debug flag is read by error() alone (line 168), which none of these *)
(* calls reaches: it is false in these parts and free in ErrorSpec.        *)

PlainLoader == [present |-> TRUE, isArray |-> FALSE, queue |-> <<>>]

\* the store: constructions, string calls, get and set on a loaded page
StoreInit ==
    /\ Init
    /\ ~proto.debug
    /\ loader = PlainLoader
    /\ readyState = "complete" /\ hasAEL

StoreNext ==
    \/ New(<<>>)
    \/ \E i \in 1..Len(insts), a \in StringCalls : Call(i, a)
    \/ \E i \in 1..Len(insts), p \in PathInputs, d \in Defaults : Get(i, p, d)
    \/ \E i \in 1..Len(insts), p \in PathInputs, v \in Values : Set(i, p, v)

StoreSpec == StoreInit /\ [][StoreNext]_vars

\* the ready mechanism: constructions, handler registrations, the host
ReadyInit ==
    /\ Init
    /\ ~proto.debug
    /\ loader \in {[present |-> FALSE, isArray |-> FALSE, queue |-> <<>>], PlainLoader,
                   [present |-> TRUE, isArray |-> TRUE, queue |-> <<<<Fn("h")>>>>]}

ReadyNext ==
    \/ \E a \in {<<>>} \cup FunctionCalls : New(a)
    \/ \E i \in 1..Len(insts), a \in {<<>>} \cup FunctionCalls : Call(i, a)
    \/ \E i \in 1..Len(insts), a \in ArgInputs : CallReady(i, a)
    \/ HostInteractive
    \/ HostDOMContentLoaded
    \/ HostComplete
    \/ TimerFire

ReadySpec == ReadyInit /\ [][ReadyNext]_vars

\* the host dispatches its events and runs its timers
ReadyLive ==
    /\ ReadySpec
    /\ WF_vars(HostInteractive) /\ WF_vars(HostDOMContentLoaded)
    /\ WF_vars(HostComplete) /\ WF_vars(TimerFire)

\* initialization: constructions under every placeholder, and the host
InitNext ==
    \/ \E a \in CallInputs : New(a)
    \/ HostInteractive
    \/ HostDOMContentLoaded
    \/ HostComplete
    \/ TimerFire

InitInit ==
    /\ Init
    /\ ~proto.debug

InitSpec == InitInit /\ [][InitNext]_vars

\* letter case: get, set and the string calls on paths that differ in case
CasePaths == {<<"a">>, <<"A">>}

CaseNext ==
    \/ New(<<>>)
    \/ \E i \in 1..Len(insts), p \in CasePaths, v \in Values \cup {Undefined} :
           Call(i, <<Str(p), v>>)
    \/ \E i \in 1..Len(insts), p \in CasePaths, d \in Defaults : Get(i, p, d)
    \/ \E i \in 1..Len(insts), p \in CasePaths, v \in Values : Set(i, p, v)

CaseSpec == StoreInit /\ [][CaseNext]_vars

PathNext ==
    \/ New(<<>>)
    \/ \E i \in 1..Len(insts), p \in FormPaths : Get(i, p, Undefined)
    \/ \E i \in 1..Len(insts), p \in FormPaths, v \in Values : Set(i, p, v)
    \/ \E i \in 1..Len(insts), f \in PathForms : GetSegs(i, f.segments, Undefined)
    \/ \E i \in 1..Len(insts), f \in PathForms, v \in Values : SetSegs(i, f.segments, v)

PathSpec == StoreInit /\ [][PathNext]_vars

\* writes: set on paths that share segments, so that a write meets a store
\* where none, some or all of its segments exist
WritePaths == {<<"a">>, <<"a", ".", "b">>, <<"a", ".", "0", ".", "b">>}

WriteNext ==
    \/ New(<<>>)
    \/ \E i \in 1..Len(insts), p \in WritePaths, v \in Values : Set(i, p, v)

WriteSpec == StoreInit /\ [][WriteNext]_vars

\* error and protect: the debug flag free, a store and a ready callback for
\* error to leave alone
ErrorInit ==
    /\ Init
    /\ loader = PlainLoader
    /\ readyState = "complete" /\ hasAEL

ErrorNext ==
    \/ New(<<>>)
    \/ \E i \in 1..Len(insts) : Call(i, <<Str(<<"a">>), Str(<<"v1">>)>>)
    \/ \E i \in 1..Len(insts), e \in Exceptions : CallError(i, e)
    \/ \E i \in 1..Len(insts), k \in 1..MaxMods, name \in ModNames : Protect(i, k, name)
    \/ \E k \in 1..Len(mods), p \in DOMAIN ModObject.f : CallMethod(k, p)
    \/ TimerFire

ErrorSpec == ErrorInit /\ [][ErrorNext]_vars

\* the function form of App: every caller's callback is registered through
\* `new App(handler, ...)` or a call of App on an instance
DispatchNext ==
    \/ \E a \in {<<>>} \cup FunctionCalls : New(a)
    \/ \E i \in 1..Len(insts), a \in FunctionCalls : Call(i, a)
    \/ HostInteractive
    \/ HostDOMContentLoaded
    \/ HostComplete
    \/ TimerFire

DispatchSpec == ReadyInit /\ [][DispatchNext]_vars

-----------------------------------------------------------------------------
(* Claims *)

\* the instance the last call worked on, as `this`
LastThis == This(insts[last.self].own, M)
\* the path and the second argument of the last get, set or string call
LastPath == last.args[1].s
LastValue == IF Len(last.args) >= 2 THEN last.args[2] ELSE Undefined

\* C1: round trip.  After set(P, V) has returned, get(P) on the same
\* instance returns V.
C1_SetThenGet ==
    last.op = "set" /\ ~last.threw =>
        LET r == AppGet(LastThis, LastPath, Undefined)
        IN  ~r.threw /\ r.ret = LastValue

\* C2: queue replay order.  The first construction on a page whose
\* placeholder holds a queue of N calls dispatches every one of the N calls,
\* once each and in the order of the queue, and nothing but its own
\* arguments after them.
C2_ReplayInOrder ==
    last.op = "new" /\ last.self = 1 /\ loader.isArray =>
        LET n == Len(loader.queue)
        IN  /\ Len(last.log) >= n
            /\ SubSeq(last.log, 1, n) = loader.queue
            /\ SubSeq(last.log, n + 1, Len(last.log)) \in {<<>>, <<last.args>>}

\* C3: idempotent initialization.  On a page whose placeholder holds a
\* queue, only the first construction runs the initialization block: a later
\* construction neither enters the block nor replays the queue, and the
\* callback of line 112 is registered at most once.
C3_InitOnce ==
    loader.isArray =>
        /\ last.op = "new" /\ last.self > 1 => last.inits = 0 /\ last.replays = 0
        /\ Cardinality({id \in DOMAIN regs : regs[id].internal}) <= 1

\* C4: no autocreate on read.  A get(P, D) of a path that does not resolve on
\* the instance returns D and leaves the instance and the shared data object
\* as they were.
C4_GetLeavesStore ==
    [][last'.op = "get" /\ ~last'.resolved =>
          /\ ~last'.threw /\ last'.ret = last'.args[2]
          /\ insts' = insts /\ proto' = proto]_vars

\* C5: get never fails.  No get raises an exception, and a get of a path that
\* does not resolve returns the default.
C5_GetNeverThrows ==
    last.op = "get" =>
        /\ ~last.threw
        /\ ~last.resolved => last.ret = LastValue

\* C6: a caller's callback registered while the document was loading has
\* been invoked at most once, never while the document is still loading, and
\* exactly once when the document is complete and no timer is pending.
C6_InvokedOnce ==
    \A id \in DOMAIN regs :
        ~regs[id].internal /\ regs[id].loading =>
            /\ regs[id].n <= 1
            /\ regs[id].n > 0 => readyState # "loading"
            /\ readyState = "complete" /\ timers = <<>> => regs[id].n = 1

\* the registrations whose timer is pending
Pending == {timers[k] : k \in DOMAIN timers}

\* C7: always deferred.  A call that registers a callback while the document
\* is no longer loading leaves the callback uninvoked with a timer pending,
\* and a callback is invoked only by the step that fires its timer.
C7_AlwaysDeferred ==
    [][/\ \A id \in DOMAIN regs' \ DOMAIN regs :
              ~regs'[id].loading => regs'[id].n = 0 /\ id \in Pending'
       /\ \A id \in DOMAIN regs :
              regs'[id].n # regs[id].n =>
                  /\ timers # <<>> /\ Head(timers) = id /\ timers' = Tail(timers)
                  /\ regs'[id].n = regs[id].n + 1]_vars

\* C7 witness: ready() was just called on a document that is not loading;
\* the callback has not run and its timer is pending.
C7_Witness ==
    /\ last.op = "ready" /\ readyState # "loading"
    /\ regs[Len(regs)].n = 0 /\ ~regs[Len(regs)].loading
    /\ Len(regs) \in Pending

\* C8: liveness.  Every callback that a call of ready has registered is
\* eventually invoked, the host dispatching its events and running its
\* timers.
C8_EventuallyInvoked ==
    \A id \in 1..MaxRegs :
        [](id \in DOMAIN regs => <>(id \in DOMAIN regs /\ regs[id].n >= 1))

\* C8 witness: a caller's callback registered while the document was
\* loading has been invoked.
C8_Witness ==
    \E id \in DOMAIN regs :
        ~regs[id].internal /\ regs[id].loading /\ regs[id].n >= 1

\* C9: the string form of App is get/set.  A value written with App(P, V) is
\* what get(P) returns, and a value written with set(P, V) is what App(P)
\* returns, on the same instance.
C9_DispatcherIsGetSet ==
    /\ last.op = "call" /\ ~last.threw /\ Len(last.args) >= 1
         /\ last.args[1].t = "string" /\ LastValue.t # "undefined"
       => AppGet(LastThis, LastPath, Undefined).ret = LastValue
    /\ last.op = "set" /\ ~last.threw
       => Dispatch(M, last.self, FALSE, <<Str(LastPath)>>).ret = LastValue

\* C10: absent placeholder.  The first construction on a page without a
\* placeholder completes: no exception, the instance is initialized, the
\* callback of line 112 is registered and the call's arguments are dispatched.
C10_AbsentLoader ==
    last.op = "new" /\ last.self = 1 /\ ~loader.present =>
        /\ ~last.threw
        /\ This(insts[1].own, M).f["appready"] = Bool(TRUE)
        /\ \E id \in DOMAIN regs : regs[id].internal /\ regs[id].self = 1
        /\ last.log = <<last.args>>

\* C11: keys are case-insensitive.  On every instance, two paths that differ
\* only in letter case address the same location: get returns the same
\* value at both, set leaves the same store behind at both, and the string
\* form of App returns the same value at both.
C11_CaseInsensitive ==
    \A i \in DOMAIN insts : insts[i].held =>
        \A p, q \in CasePaths : toLowerCase(p) = toLowerCase(q) =>
            LET this == This(insts[i].own, M)
            IN  /\ AppGet(this, p, Undefined).ret = AppGet(this, q, Undefined).ret
                /\ \A v \in Values : AppSet(this, p, v).ret = AppSet(this, q, v).ret
                /\ Dispatch(M, i, FALSE, <<Str(p)>>).ret
                     = Dispatch(M, i, FALSE, <<Str(q)>>).ret

\* C12: path normalization.  In every state of the store and on every
\* instance, a path written with a bracketed index, the same path written
\* with dotted segments and the array of its property names give the same
\* outcome of get (value returned, exception or not, store left behind) and
\* the same outcome of set.
C12_PathForms ==
    \A i \in DOMAIN insts : insts[i].held =>
        \A f \in PathForms :
            LET this == This(insts[i].own, M)
            IN  /\ \A d \in Defaults :
                     /\ AppGet(this, f.bracketed, d) = AppGet(this, f.dotted, d)
                     /\ AppGet(this, f.dotted, d) = GetOrSetSegs(this, f.segments, d, FALSE)
                /\ \A v \in Values :
                     /\ AppSet(this, f.bracketed, v) = AppSet(this, f.dotted, v)
                     /\ AppSet(this, f.dotted, v) = GetOrSetSegs(this, f.segments, v, TRUE)

\* C12 witness: set('a[0].b', V) has stored V, and get('a.0.b') and
\* get(['a', '0', 'b']) return it.
C12_Witness ==
    /\ last.op = "set" /\ ~last.threw /\ ~last.resolved
    /\ last.args[1] = Str(<<"a", "[", "0", "]", ".", "b">>)
    /\ AppGet(LastThis, <<"a", ".", "0", ".", "b">>, Undefined).ret = LastValue
    /\ GetOrSetSegs(LastThis, <<"a", "0", "b">>, Undefined, FALSE).ret = LastValue

\* whether `after` is `before` with value v written at the segments of segs
\* from the k-th on: every key off the path is as it was, every segment
\* before the last holds an object (the one it held, or a new one with
\* nothing but the next segment) and the last segment, absent before, holds v
RECURSIVE Written(_, _, _, _, _)
Written(before, after, segs, k, v) ==
    /\ after.t = "object"
    /\ DOMAIN after.f = DOMAIN before.f \cup {segs[k]}
    /\ \A key \in DOMAIN before.f \ {segs[k]} : after.f[key] = before.f[key]
    /\ IF k = Len(segs)
       THEN segs[k] \notin DOMAIN before.f /\ after.f[segs[k]] = v
       ELSE Written(IF segs[k] \in DOMAIN before.f THEN before.f[segs[k]] ELSE EmptyObj,
                    after.f[segs[k]], segs, k + 1, v)

\* C13: autocreate on write.  A set(P, V) that returns and whose path did not
\* resolve returns V and leaves the instance as it was but for the path of
\* P: V at the last segment, an object at every segment before it (a new
\* empty one where the segment was absent), every other key unchanged; the
\* other instances and the shared data object are unchanged.
C13_Autocreate ==
    [][last'.op = "set" /\ ~last'.threw /\ ~last'.resolved =>
          LET i == last'.self
              value == last'.args[2]
          IN  /\ last'.ret = value
              /\ Written(This(insts[i].own, M), This(insts'[i].own, M'),
                         PathToArray(last'.args[1].s), 1, value)
              /\ \A j \in DOMAIN insts \ {i} : insts'[j] = insts[j]
              /\ proto' = proto]_vars

\* C13 witness: set('a.0.b', V) on an instance that held a.b: a keeps b and
\* gains the new object {b: V} at 0, and get('a') is that object.
C13_Witness ==
    /\ last.op = "set" /\ ~last.threw /\ ~last.resolved
    /\ LastPath = <<"a", ".", "0", ".", "b">>
    /\ LET a == AppGet(LastThis, <<"a">>, Undefined).ret
       IN  /\ a.t = "object" /\ DOMAIN a.f = {"b", "0"}
           /\ a.f["0"] = Obj("b" :> LastValue)

C14_ErrorModes ==
    [][last'.op = "error" =>
          /\ proto.debug => last'.threw /\ last'.ret = last'.args[1]
          /\ ~proto.debug => ~last'.threw /\ last'.ret = Undefined
          /\ UNCHANGED <<readyState, hasAEL, dclFired, loader, proto, insts, regs,
                         listeners, timers, mods>>]_vars

\* C14 witness: with the debug flag false, error(exception) has returned on
\* a page whose store holds a value and whose instance is ready.
C14_Witness ==
    /\ last.op = "error" /\ ~proto.debug /\ ~last.threw
    /\ last.args[1] = ErrorObj
    /\ proto.data # EmptyObj
    /\ This(insts[last.self].own, M).f["domready"] = Bool(TRUE)

\* C17: protect.  Every method of a protected object is a wrapper, and a
\* call of a wrapper returns what the method returns when the method does
\* not throw; when the method throws, the call returns undefined and raises
\* nothing with the debug flag false, and raises with the debug flag true.
C17_ProtectedMethods ==
    /\ \A k \in DOMAIN mods : \A p \in DOMAIN ModObject.f :
           /\ p \in DOMAIN mods[k].f
           /\ ModObject.f[p].t = "function" => IsWrapper(mods[k].f[p])
           /\ ModObject.f[p].t # "function" => mods[k].f[p] = ModObject.f[p]
    /\ last.op = "method" =>
           LET method == Body(Original(mods[last.self].f[Join(last.args[1].s)]))
           IN  /\ ~method.threw => ~last.threw /\ last.ret = method.ret
               /\ method.threw /\ ~proto.debug => ~last.threw /\ last.ret = Undefined
               /\ method.threw /\ proto.debug => last.threw

\* whether the flag `name` reads true on instance i
Flag(i, name) == This(insts[i].own, M).f[name] = Bool(TRUE)

\* C15: the ready flags are monotonic.  Over every step (construction, call
\* of App, ready registration, host event, timer), the appready flag and the
\* domready flag of every object stay true once they are true: each changes
\* from false to true at most once.
C15_FlagsMonotonic ==
    [][/\ \A i \in DOMAIN insts : \A name \in {"appready", "domready"} :
              Flag(i, name) => Flag(i, name)'
       /\ proto.domready => proto'.domready]_vars

\* C15 witness: the callback of line 112 has run and has changed the
\* domready flag of an initialized instance from false to true.
C15_Witness ==
    /\ last.op = "handler" /\ ~proto.domready
    /\ Flag(last.self, "appready") /\ Flag(last.self, "domready")

\* C16: the function form of App.  A call of App on an initialized instance
\* with a function first registers it as ready does with the same arguments;
\* the registration made by a construction or a call with a function first
\* keeps the arguments after the function, in their order, and the step that
\* invokes a callback hands it the arguments its registration kept.
C16_FunctionForm ==
    [][/\ last'.op \in {"new", "call"} /\ ~last'.threw /\ Len(last'.args) >= 1
            /\ last'.args[1].t = "function"
          => /\ Len(regs') > Len(regs)
             /\ regs'[Len(regs')] = [internal |-> FALSE, self |-> last'.self,
                                     args |-> Tail(last'.args),
                                     loading |-> readyState = "loading", n |-> 0]
             /\ last'.op = "call" =>
                  LET m == Ready(M, last'.self, FALSE, last'.args)
                  IN  regs' = m.regs /\ listeners' = m.listeners /\ timers' = m.timers
       /\ last'.op = "handler"
          => /\ timers # <<>> /\ last'.args = regs[Head(timers)].args
             /\ regs'[Head(timers)].n = regs[Head(timers)].n + 1]_vars

\* C16 witness: a callback registered through App with the arguments x and y
\* after it has been invoked with x and y.
C16_Witness ==
    /\ last.op = "handler"
    /\ last.args = <<Str(<<"x">>), Str(<<"y">>)>>
    /\ \E id \in DOMAIN regs : ~regs[id].internal /\ regs[id].n >= 1 /\ regs[id].args = last.args

\* C19: when a caller's callback is invoked, the domready flag of the
\* instance it was registered through is already true.
C19_DomreadyBeforeCallbacks ==
    [][\A id \in DOMAIN regs :
          regs'[id].n > regs[id].n /\ ~regs[id].internal
              => Flag(regs[id].self, "domready")]_vars

\* C20: one store for all constructions.  After a write through one
\* instance that returned (set, or the string form of App with a value),
\* get at the same path returns the same value through every instance, and
\* so does the string form of App.
C20_SharedStore ==
    last.op \in {"set", "call"} /\ ~last.threw /\ Len(last.args) >= 2
          /\ last.args[1].t = "string" /\ LastValue.t # "undefined"
       => \A j \in DOMAIN insts : insts[j].held =>
              /\ AppGet(This(insts[j].own, M), LastPath, Undefined).ret
                   = AppGet(LastThis, LastPath, Undefined).ret
              /\ Dispatch(M, j, FALSE, <<Str(LastPath)>>).ret
                   = Dispatch(M, last.self, FALSE, <<Str(LastPath)>>).ret

====
